---- MODULE Spec2Model ----
(***************************************************************************)
(* food-diary: the route handlers and the session resolver of package      *)
(* server and the SQL statements of package repo (Users, Meals), as a      *)
(* state machine over the two tables, the clients' session cookies and the *)
(* wall clock.  One action per route handler; a handler runs at most one   *)
(* SQL statement, so a handler is one atomic step.  A statement may fail   *)
(* in the driver (fault), which the handlers' error branches handle.       *)
(***************************************************************************)
EXTENDS Integers, Sequences, FiniteSets

\* ------------------------------------------------------------------ bounds
MaxUsers == 2        \* rows the Users table may reach
MaxMealId == 2       \* highest id the Meals AUTOINCREMENT sequence may reach
MaxTime == 2         \* last instant of the wall clock
TicksPerDay == 2     \* instants in one calendar day

\* ------------------------------------------------------------------ inputs
Clients == {"browser"}
Methods == {"GET", "POST"}
Emails == {"ann@x", "bob@x"}
LongPassword == "a password longer than 72 bytes"
\* the passwords typed at /register, and those typed at /login
NewPasswords == {"hunter2", LongPassword}
Passwords == {"hunter2", "letmein"}

Breakfast == "breakfast"
Lunch == "lunch"
Dinner == "dinner"
Snacks == "snacks"

\* the order in which handleMeals looks at the form fields
MealTypeOrder == <<Breakfast, Lunch, Dinner, Snacks>>

MealTypes == {MealTypeOrder[i] : i \in 1..Len(MealTypeOrder)}

EmptyForm == [t \in MealTypes |-> ""]

\* r.Form of a POST /api/meals: a value (possibly "") per meal field
Forms ==
    { EmptyForm,
      [EmptyForm EXCEPT ![Lunch] = "soup", ![Snacks] = "chips"] }

Times == 0..MaxTime
Days == {t \div TicksPerDay : t \in Times}

\* the ?date= query parameter: << >> is "", <<d>> is the text YYYY-MM-DD of
\* day d, anything longer is text that the layout 2006-01-02 does not accept
DateParams == {<< >>} \cup {<<d>> : d \in Days} \cup {<<0, 0>>}

\* the {id} URL parameter: a text of digits (its value n) or other text
IdParams ==
    {[digits |-> TRUE, n |-> n] : n \in 1..MaxMealId} \cup {[digits |-> FALSE, n |-> 0]}

\* ------------------------------------------------------------------ session values
\* session.Values is a map of interface{} values; a missing key reads as nil
Nil == [type |-> "nil", val |-> 0]
Int64(n) == [type |-> "int64", val |-> n]
EmptyValues == [userId |-> Nil]

\* the goroutines in which net/http runs the handlers of requests that are
\* served at the same time
Goroutines == {"g1", "g2"}

\* a goroutine that serves no request
Idle == [pc |-> "idle", cookie |-> EmptyValues, time |-> 0, meals |-> {}]

VARIABLES
    Users,      \* table Users(id, email, password)
    Meals,      \* table Meals(id, user_id, name, meal_type, date_consumed)
    mealSeq,    \* sqlite_sequence of Meals (AUTOINCREMENT)
    cookies,    \* per client: the session.Values held in its "session" cookie
    now,        \* time.Now()
    req,        \* the last request served
    resp,       \* the response to it, with the handler's steps (resp.trace)
    viewData,   \* "var data ViewData", which the requests to a handler of main.go share
    inflight    \* per goroutine: the request it is serving, and where it is

vars == <<Users, Meals, mealSeq, cookies, now, req, resp, viewData, inflight>>

\* ------------------------------------------------------------------ time and text
\* time.Format("2006-01-02 15:04:05"): the text <<day, time of day>>
FormatTimestamp(t) == <<t \div TicksPerDay, t % TicksPerDay>>

\* time.Format("2006-01-02"): the text <<day>>
FormatDate(t) == <<t \div TicksPerDay>>

\* time.Parse("2006-01-02", s): midnight of that day, or an error
TimeParse(s) ==
    IF Len(s) = 1
    THEN [time |-> s[1] * TicksPerDay, err |-> FALSE]
    ELSE [time |-> 0, err |-> TRUE]

\* mutant: the text compared as it is, without DATE()
SqlDateIdentity(text) == text

\* SQLite DATE(text): the date part of a date or date-time text
SqlDate(text) == <<text[1]>>

\* ------------------------------------------------------------------ bcrypt
\* mutant: the password goes into the column as it is
GenerateFromPasswordPlain(p) ==
    IF p = LongPassword
    THEN [hash |-> <<>>, err |-> TRUE]
    ELSE [hash |-> <<p>>, err |-> FALSE]

\* bcrypt.GenerateFromPassword: a hash that is not the password, or an error
\* for a password of more than 72 bytes
GenerateFromPassword(p) ==
    IF p = LongPassword
    THEN [hash |-> <<>>, err |-> TRUE]
    ELSE [hash |-> <<"$2a$10$", p>>, err |-> FALSE]

\* mutant: every password is accepted
CompareHashAndPasswordAny(hash, p) == FALSE

\* bcrypt.CompareHashAndPassword: TRUE when it returns an error
CompareHashAndPassword(hash, p) ==
    LET h == GenerateFromPassword(p)
    IN  h.err \/ h.hash /= hash

\* ------------------------------------------------------------------ repo/users.go
NewUser(email, password) == [id |-> 0, email |-> email, password |-> password]

\* id INTEGER PRIMARY KEY: the row id is one more than the largest in the table
NextUserId(users) ==
    IF users = {} THEN 1
    ELSE (CHOOSE i \in {u.id : u \in users} : \A u \in users : u.id <= i) + 1

\* mutant: the email column without UNIQUE
UsersConstraintNone(users, user) == "nil"

\* the error of an INSERT INTO Users: email TEXT NOT NULL UNIQUE
UsersConstraint(users, user) ==
    IF \E u \in users : u.email = user.email THEN "SQLITE_CONSTRAINT_UNIQUE" ELSE "nil"

\* mutant: INSERT OR REPLACE, which puts the new row in the place of the row
\* that has the email
InsertUserReplace(users, user, fault) ==
    LET kept == {u \in users : u.email /= user.email}
        id == NextUserId(users)
    IN  IF fault
        THEN [users |-> users, user |-> user, err |-> "SQLITE_BUSY"]
        ELSE [users |-> kept \cup {[user EXCEPT !.id = id]},
              user |-> [user EXCEPT !.id = id], err |-> "nil"]

\* InsertUser: the statement fails (fault: the driver's error, such as a locked
\* database; or the constraint) and the user comes back as given, or the row
\* is added and the user comes back with its id
InsertUser(users, user, fault) ==
    LET err == IF fault THEN "SQLITE_BUSY" ELSE UsersConstraint(users, user)
        id == NextUserId(users)
    IN  IF err /= "nil"
        THEN [users |-> users, user |-> user, err |-> err]
        ELSE [users |-> users \cup {[user EXCEPT !.id = id]},
              user |-> [user EXCEPT !.id = id], err |-> "nil"]

\* GetUserByEmail: the row, or the zero User and an error (sql.ErrNoRows when
\* no row has the email)
GetUserByEmail(users, email, fault) ==
    LET rows == {u \in users : u.email = email}
    IN  IF fault THEN [user |-> NewUser("", <<>>), err |-> "SQLITE_BUSY"]
        ELSE IF rows = {} THEN [user |-> NewUser("", <<>>), err |-> "sql: no rows in result set"]
        ELSE [user |-> CHOOSE u \in rows : TRUE, err |-> "nil"]

\* ------------------------------------------------------------------ repo/meals.go
\* mutant: the name and the meal type passed in each other's place
NewMealSwapped(name, userId, mealType, time) ==
    [id |-> 0, user_id |-> userId, name |-> mealType, meal_type |-> name,
     date_consumed |-> FormatTimestamp(time)]

NewMeal(name, userId, mealType, time) ==
    [id |-> 0, user_id |-> userId, name |-> name, meal_type |-> mealType,
     date_consumed |-> FormatTimestamp(time)]

\* mutant: INTEGER PRIMARY KEY without AUTOINCREMENT, one more than the largest
\* id now in the table
NextMealIdReuse(meals, seq) ==
    IF meals = {} THEN 1
    ELSE (CHOOSE i \in {m.id : m \in meals} : \A m \in meals : m.id <= i) + 1

\* id INTEGER PRIMARY KEY AUTOINCREMENT: one more than the largest id the table
\* has ever held (sqlite_sequence), so an id is never given twice
NextMealId(meals, seq) == seq + 1

InsertMeal(meals, seq, meal, fault) ==
    LET id == NextMealId(meals, seq)
    IN  IF fault
        THEN [meals |-> meals, seq |-> seq, meal |-> meal, err |-> "SQLITE_BUSY"]
        ELSE [meals |-> meals \cup {[meal EXCEPT !.id = id]},
              seq |-> IF id > seq THEN id ELSE seq,
              meal |-> [meal EXCEPT !.id = id], err |-> "nil"]

\* SELECT * FROM Meals
GetAllMeals(meals, fault) ==
    IF fault THEN [meals |-> {}, err |-> "SQLITE_BUSY"]
    ELSE [meals |-> meals, err |-> "nil"]

\* mutant: date_consumed = ? in place of DATE(date_consumed) = DATE(?)
OnUserAndDateExact(m, userId, dateText) ==
    m.user_id = userId /\ m.date_consumed = dateText

\* the WHERE clause of GetMealsByUserAndDate
OnUserAndDate(m, userId, dateText) ==
    m.user_id = userId /\ SqlDate(m.date_consumed) = SqlDate(dateText)

\* mutant: a query for one row, which reports an empty result as sql.ErrNoRows
GetMealsByUserAndDateNoRows(meals, user, inTime, fault) ==
    LET rows == {m \in meals : m.user_id = user.id /\ SqlDate(m.date_consumed) = SqlDate(FormatDate(inTime))}
    IN  IF fault THEN [meals |-> {}, err |-> "SQLITE_BUSY"]
        ELSE IF rows = {} THEN [meals |-> {}, err |-> "sql: no rows in result set"]
        ELSE [meals |-> rows, err |-> "nil"]

\* SELECT * FROM Meals WHERE user_id = ? AND DATE(date_consumed) = DATE(?)
GetMealsByUserAndDate(meals, user, inTime, fault) ==
    IF fault THEN [meals |-> {}, err |-> "SQLITE_BUSY"]
    ELSE [meals |-> {m \in meals : OnUserAndDate(m, user.id, FormatDate(inTime))},
          err |-> "nil"]

\* mutant: DELETE FROM Meals WHERE id = ?, whoever owns the meal
OwnedWithIdAnyUser(m, userId, id) == id.digits /\ m.id = id.n

\* the WHERE clause of DeleteMealByUserAndId; the id is bound as text and
\* compared with the INTEGER column: text that is no number equals no id
OwnedWithId(m, userId, id) ==
    m.user_id = userId /\ id.digits /\ m.id = id.n

\* mutant: a delete that affected no row is reported as an error
DeleteMealByUserAndIdStrict(meals, user, id, fault) ==
    IF fault THEN [meals |-> meals, err |-> "SQLITE_BUSY"]
    ELSE IF \A m \in meals : ~OwnedWithId(m, user.id, id)
    THEN [meals |-> meals, err |-> "sql: no rows in result set"]
    ELSE [meals |-> {m \in meals : ~OwnedWithId(m, user.id, id)}, err |-> "nil"]

\* DELETE FROM Meals WHERE user_id = ? AND id = ?; no error when no row matches
DeleteMealByUserAndId(meals, user, id, fault) ==
    IF fault THEN [meals |-> meals, err |-> "SQLITE_BUSY"]
    ELSE [meals |-> {m \in meals : ~OwnedWithId(m, user.id, id)}, err |-> "nil"]

\* ------------------------------------------------------------------ server/session.go
\* mutant: any value under "userId" is taken for the id
GetUserIdAnyType(values) ==
    IF values.userId.type /= "nil"
    THEN [id |-> values.userId.val, err |-> FALSE]
    ELSE [id |-> 0, err |-> TRUE]

\* mutant: the ok of the type assertion is not looked at, so a session
\* without an int64 gives the id 0 and no error
GetUserIdNoError(values) ==
    [id |-> IF values.userId.type = "int64" THEN values.userId.val ELSE 0, err |-> FALSE]

\* GetUserId: the int64 under "userId", or 0 and an error
GetUserId(values) ==
    IF values.userId.type = "int64"
    THEN [id |-> values.userId.val, err |-> FALSE]
    ELSE [id |-> 0, err |-> TRUE]

\* ------------------------------------------------------------------ http.ResponseWriter
\* status 0: no header written yet.  Once the header is written (the first
\* body write or WriteHeader), later header changes and status codes are
\* dropped, while body writes are appended.  trace lists the handler's steps.
NewResponse ==
    [status |-> 0, body |-> <<>>, location |-> "", hxRedirect |-> "",
     setCookie |-> FALSE, cookie |-> EmptyValues, trace |-> <<>>]

\* a storage call made by the handler
Storage(w) == [w EXCEPT !.trace = Append(@, "storage")]

\* tmpl.ExecuteTemplate(w, "root", data)
ExecuteTemplate(w, page, errorMessage, meals) ==
    [w EXCEPT !.status = IF @ = 0 THEN 200 ELSE @,
              !.body = Append(@, [page |-> page, errorMessage |-> errorMessage, meals |-> meals]),
              !.trace = Append(@, "render")]

\* http.Error(w, msg, code)
HttpError(w, msg, code) ==
    [w EXCEPT !.status = IF @ = 0 THEN code ELSE @,
              !.body = Append(@, [page |-> "error", errorMessage |-> msg, meals |-> {}]),
              !.trace = Append(@, "error")]

\* ServerError(w, err)
ServerError(w, err) == HttpError(w, err, 500)

\* http.Redirect(w, r, url, code)
Redirect(w, url, code) ==
    [w EXCEPT !.status = IF @ = 0 THEN code ELSE @,
              !.location = IF w.status = 0 THEN url ELSE @,
              !.trace = Append(@, "redirect")]

\* session.Values[...] = ...; sessions.Save(r, w): a Set-Cookie header
SessionsSave(w, values) ==
    [w EXCEPT !.setCookie = IF w.status = 0 THEN TRUE ELSE @,
              !.cookie = IF w.status = 0 THEN values ELSE @,
              !.trace = Append(@, "session")]

\* w.Header().Add("HX-Redirect", url)
HxRedirect(w, url) ==
    [w EXCEPT !.hxRedirect = IF w.status = 0 THEN url ELSE @]

\* the handler returns: a response with no status written goes out as 200
Finished(w) == [w EXCEPT !.status = IF @ = 0 THEN 200 ELSE @]

\* the request as the handlers read it
NewRequest(route, method, c) ==
    [route |-> route, method |-> method, client |-> c, cookie |-> cookies[c],
     email |-> "", password |-> "", form |-> EmptyForm, date |-> <<>>,
     id |-> [digits |-> FALSE, n |-> 0], fault |-> FALSE, time |-> now]

\* the client receives the response and keeps the cookie it sets
Respond(r, w) ==
    /\ req' = r
    /\ resp' = Finished(w)
    /\ cookies' = IF w.setCookie THEN [cookies EXCEPT ![r.client] = w.cookie] ELSE cookies
    /\ UNCHANGED <<viewData, inflight>>

\* repo.User{Id: userId}
UserWithId(id) == [id |-> id, email |-> "", password |-> <<>>]

\* ------------------------------------------------------------------ server/server.go
\* GET / : always to /today
handleIndex(c, method) ==
    /\ Respond(NewRequest("index", method, c), Redirect(NewResponse, "/today", 303))
    /\ UNCHANGED <<Users, Meals, mealSeq, now>>

\* /today: the meals of the session's user on the day of time.Now()
handleToday(c, method, fault) ==
    LET userId == GetUserId(cookies[c])
        got == GetMealsByUserAndDate(Meals, UserWithId(userId.id), now, fault)
        w == IF userId.err THEN Redirect(NewResponse, "/login", 303)
             ELSE IF got.err /= "nil" THEN ServerError(Storage(NewResponse), got.err)
             ELSE ExecuteTemplate(Storage(NewResponse), "today", "", got.meals)
    IN  /\ userId.err => ~fault
        /\ Respond([NewRequest("today", method, c) EXCEPT !.fault = fault], w)
        /\ UNCHANGED <<Users, Meals, mealSeq, now>>

\* mutant: a failed lookup is reported with a message of its own
handleLoginNoSuchUser(c, method, emailStr, passwordStr, fault) ==
    LET got == GetUserByEmail(Users, emailStr, fault)
        w0 == IF method = "GET"
              THEN ExecuteTemplate(NewResponse, "login", "", {})
              ELSE NewResponse
        w1 == Storage(w0)
        w == IF method /= "POST" THEN w0
             ELSE IF got.err /= "nil"
             THEN ExecuteTemplate(w1, "login", "No account with that email", {})
             ELSE IF CompareHashAndPassword(got.user.password, passwordStr)
             THEN ExecuteTemplate(w1, "login", "Invalid email or password", {})
             ELSE Redirect(SessionsSave(w1, [cookies[c] EXCEPT !.userId = Int64(got.user.id)]),
                           "/today", 303)
    IN  /\ method /= "POST" => (emailStr = "" /\ passwordStr = "" /\ ~fault)
        /\ Respond([NewRequest("login", method, c) EXCEPT
                        !.email = emailStr, !.password = passwordStr, !.fault = fault], w)
        /\ UNCHANGED <<Users, Meals, mealSeq, now>>

\* /login: GET renders the form; POST looks the user up, compares the
\* password with the stored hash and stores the user id in the session
handleLogin(c, method, emailStr, passwordStr, fault) ==
    LET got == GetUserByEmail(Users, emailStr, fault)
        w0 == IF method = "GET"
              THEN ExecuteTemplate(NewResponse, "login", "", {})
              ELSE NewResponse
        w1 == Storage(w0)
        w == IF method /= "POST" THEN w0
             ELSE IF got.err /= "nil"
             THEN ExecuteTemplate(w1, "login", "Invalid email or password", {})
             ELSE IF CompareHashAndPassword(got.user.password, passwordStr)
             THEN ExecuteTemplate(w1, "login", "Invalid email or password", {})
             ELSE Redirect(SessionsSave(w1, [cookies[c] EXCEPT !.userId = Int64(got.user.id)]),
                           "/today", 303)
    IN  /\ method /= "POST" => (emailStr = "" /\ passwordStr = "" /\ ~fault)
        /\ Respond([NewRequest("login", method, c) EXCEPT
                        !.email = emailStr, !.password = passwordStr, !.fault = fault], w)
        /\ UNCHANGED <<Users, Meals, mealSeq, now>>

\* the error is a *sqlite.Error
IsSqliteError(err) == err \in {"SQLITE_CONSTRAINT_UNIQUE", "SQLITE_BUSY"}

\* liteErr.Code()
SqliteCode(err) == IF err = "SQLITE_CONSTRAINT_UNIQUE" THEN 2067 ELSE 5

\* /register: GET renders the form; POST hashes the password, inserts the
\* user and stores the user id in the session.  Only the sql.ErrNoRows branch
\* of the insert's error handling returns: after the other errors the handler
\* goes on to the session and the redirect, with the user as InsertUser
\* returned it.
handleRegister(c, method, emailStr, passwordStr, fault) ==
    LET hashed == GenerateFromPassword(passwordStr)
        ins == InsertUser(Users, NewUser(emailStr, hashed.hash), fault)
        w0 == IF method = "GET"
              THEN ExecuteTemplate(NewResponse, "register", "", {})
              ELSE NewResponse
        w1 == Storage(w0)
        w2 == IF ins.err /= "nil" /\ IsSqliteError(ins.err) /\ SqliteCode(ins.err) = 2067
              THEN ExecuteTemplate(w1, "register", "Invalid email or password.", {})
              ELSE w1
        w == IF method /= "POST" THEN w0
             ELSE IF hashed.err THEN ServerError(w0, "bcrypt: password length exceeds 72 bytes")
             ELSE IF ins.err = "sql: no rows in result set" THEN ServerError(w1, ins.err)
             ELSE Redirect(SessionsSave(w2, [cookies[c] EXCEPT !.userId = Int64(ins.user.id)]),
                           "/today", 303)
        stored == method = "POST" /\ ~hashed.err
    IN  /\ method /= "POST" => (emailStr = "" /\ passwordStr = "")
        /\ ~stored => ~fault
        /\ (stored /\ ins.err = "nil") => Cardinality(Users) < MaxUsers
        /\ Respond([NewRequest("register", method, c) EXCEPT
                        !.email = emailStr, !.password = passwordStr, !.fault = fault], w)
        /\ Users' = IF stored THEN ins.users ELSE Users
        /\ UNCHANGED <<Meals, mealSeq, now>>

\* /history: the meals of the session's user on the day of ?date=, or,
\* without a date, what GetAllMeals returns
handleHistory(c, method, dateStr, fault) ==
    LET userId == GetUserId(cookies[c])
        date == TimeParse(dateStr)
        got == IF dateStr /= <<>>
               THEN GetMealsByUserAndDate(Meals, UserWithId(userId.id), date.time, fault)
               ELSE GetAllMeals(Meals, fault)
        queried == ~userId.err /\ (dateStr /= <<>> => ~date.err)
        w == IF userId.err THEN Redirect(NewResponse, "/login", 401)
             ELSE IF dateStr /= <<>> /\ date.err
             THEN HttpError(NewResponse, "Invalid date format", 400)
             ELSE IF got.err /= "nil" THEN ServerError(Storage(NewResponse), got.err)
             ELSE ExecuteTemplate(Storage(NewResponse), "history", "", got.meals)
    IN  /\ ~queried => ~fault
        /\ Respond([NewRequest("history", method, c) EXCEPT !.date = dateStr, !.fault = fault], w)
        /\ UNCHANGED <<Users, Meals, mealSeq, now>>

\* /logout: POST removes the user id from the session
handleLogout(c, method) ==
    LET w == IF method = "POST"
             THEN HxRedirect(SessionsSave(NewResponse, [cookies[c] EXCEPT !.userId = Nil]), "/login")
             ELSE NewResponse
    IN  /\ Respond(NewRequest("logout", method, c), w)
        /\ UNCHANGED <<Users, Meals, mealSeq, now>>

\* mutant: the loop without its break, which ends with the last field that is
\* not empty
FormDataLast(form) ==
    LET filled == {i \in 1..Len(MealTypeOrder) : form[MealTypeOrder[i]] /= ""}
        last == CHOOSE i \in filled : \A j \in filled : j <= i
    IN  IF filled = {} THEN [Name |-> "", MealType |-> ""]
        ELSE [Name |-> form[MealTypeOrder[last]], MealType |-> MealTypeOrder[last]]

\* the loop of handleMeals over the meal fields: the first that is not empty
FormData(form) ==
    LET filled == {i \in 1..Len(MealTypeOrder) : form[MealTypeOrder[i]] /= ""}
        first == CHOOSE i \in filled : \A j \in filled : i <= j
    IN  IF filled = {} THEN [Name |-> "", MealType |-> ""]
        ELSE [Name |-> form[MealTypeOrder[first]], MealType |-> MealTypeOrder[first]]

\* mutant: the handler without the test for an empty submission, as it was
\* before the test was added
handleMealsUnchecked(c, form, fault) ==
    LET userId == GetUserId(cookies[c])
        data == FormData(form)
        ins == InsertMeal(Meals, mealSeq, NewMeal(data.Name, userId.id, data.MealType, now), fault)
        stored == ~userId.err
        w == IF userId.err
             THEN ServerError(NewResponse, "Error! Could not get user id from session")
             ELSE IF ins.err /= "nil" THEN ServerError(Storage(NewResponse), ins.err)
             ELSE Redirect(Storage(NewResponse), "/today", 303)
    IN  /\ ~stored => ~fault
        /\ (stored /\ ~fault) => mealSeq < MaxMealId
        /\ Respond([NewRequest("meals", "POST", c) EXCEPT !.form = form, !.fault = fault], w)
        /\ Meals' = IF stored THEN ins.meals ELSE Meals
        /\ mealSeq' = IF stored THEN ins.seq ELSE mealSeq
        /\ UNCHANGED <<Users, now>>

\* POST /api/meals: insert the meal of the form for the session's user
handleMeals(c, form, fault) ==
    LET userId == GetUserId(cookies[c])
        data == FormData(form)
        ins == InsertMeal(Meals, mealSeq, NewMeal(data.Name, userId.id, data.MealType, now), fault)
        stored == ~userId.err /\ data.Name /= ""
        w == IF userId.err
             THEN ServerError(NewResponse, "Error! Could not get user id from session")
             ELSE IF data.Name = ""
             THEN HttpError(NewResponse, "Error, recieved an empty form submission!", 400)
             ELSE IF ins.err /= "nil" THEN ServerError(Storage(NewResponse), ins.err)
             ELSE Redirect(Storage(NewResponse), "/today", 303)
    IN  /\ ~stored => ~fault
        /\ (stored /\ ~fault) => mealSeq < MaxMealId
        /\ Respond([NewRequest("meals", "POST", c) EXCEPT !.form = form, !.fault = fault], w)
        /\ Meals' = IF stored THEN ins.meals ELSE Meals
        /\ mealSeq' = IF stored THEN ins.seq ELSE mealSeq
        /\ UNCHANGED <<Users, now>>

\* DELETE /api/meals/{id}: delete the meal with that id of the session's user
handleDeleteMeal(c, id, fault) ==
    LET userId == GetUserId(cookies[c])
        del == DeleteMealByUserAndId(Meals, UserWithId(userId.id), id, fault)
        w == IF userId.err
             THEN ServerError(NewResponse, "Error! Could not get user id from session")
             ELSE IF del.err /= "nil" THEN ServerError(Storage(NewResponse), del.err)
             ELSE HxRedirect(Storage(NewResponse), "/today")
    IN  /\ userId.err => ~fault
        /\ Respond([NewRequest("deleteMeal", "DELETE", c) EXCEPT !.id = id, !.fault = fault], w)
        /\ Meals' = IF userId.err THEN Meals ELSE del.meals
        /\ UNCHANGED <<Users, mealSeq, now>>

\* the wall clock advances
Tick ==
    /\ now < MaxTime
    /\ now' = now + 1
    /\ UNCHANGED <<Users, Meals, mealSeq, cookies, req, resp, viewData, inflight>>

\* ------------------------------------------------------------------ specification
\* a fresh database, clients without a session cookie, no request served yet
Init ==
    /\ Users = {}
    /\ Meals = {}
    /\ mealSeq = 0
    /\ cookies = [c \in Clients |-> EmptyValues]
    /\ now = 0
    /\ req = [route |-> "none", method |-> "", client |-> "", cookie |-> EmptyValues,
              email |-> "", password |-> "", form |-> EmptyForm, date |-> <<>>,
              id |-> [digits |-> FALSE, n |-> 0], fault |-> FALSE, time |-> 0]
    /\ resp = NewResponse
    /\ viewData = [Meals |-> {}]
    /\ inflight = [g \in Goroutines |-> Idle]

Next ==
    \/ \E c \in Clients : handleIndex(c, "GET")
    \/ \E c \in Clients, fault \in BOOLEAN : handleToday(c, "GET", fault)
    \/ \E c \in Clients : handleLogin(c, "GET", "", "", FALSE)
    \/ \E c \in Clients, e \in Emails, p \in Passwords, fault \in BOOLEAN :
          handleLogin(c, "POST", e, p, fault)
    \/ \E c \in Clients : handleRegister(c, "GET", "", "", FALSE)
    \/ \E c \in Clients, e \in Emails, p \in NewPasswords, fault \in BOOLEAN :
          handleRegister(c, "POST", e, p, fault)
    \/ \E c \in Clients, d \in DateParams, fault \in BOOLEAN : handleHistory(c, "GET", d, fault)
    \/ \E c \in Clients, method \in Methods : handleLogout(c, method)
    \/ \E c \in Clients, form \in Forms, fault \in BOOLEAN : handleMeals(c, form, fault)
    \/ \E c \in Clients, id \in IdParams, fault \in BOOLEAN : handleDeleteMeal(c, id, fault)
    \/ Tick

Spec == Init /\ [][Next]_vars

\* ------------------------------------------------------------------ main.go (sessions)
\* handleToday of main.go declares "var data ViewData" once, outside the
\* handler function it returns, so every request to /today assigns to and
\* reads the same data (viewData).  net/http serves each request in its own goroutine:
\* the handler's steps of two requests interleave, and the write and the read
\* of data.Meals race.  The steps below are the outcomes of that race in which
\* each assignment and each read is whole.

\* the goroutine reads the session and queries the meals of its user today;
\* without a user id in the session it redirects to /login and is done
TodayQuery(g, c, fault) ==
    LET r == [NewRequest("today", "GET", c) EXCEPT !.fault = fault]
        signedIn == r.cookie.userId.type = "int64"
        got == GetMealsByUserAndDate(Meals, UserWithId(r.cookie.userId.val), now, fault)
    IN  /\ inflight[g].pc = "idle"
        /\ ~signedIn => ~fault
        /\ IF ~signedIn
           THEN /\ req' = r
                /\ resp' = Finished(Redirect(NewResponse, "/login", 303))
                /\ UNCHANGED inflight
           ELSE IF got.err /= "nil"
           THEN /\ req' = r
                /\ resp' = Finished(ServerError(Storage(NewResponse), got.err))
                /\ UNCHANGED inflight
           ELSE /\ inflight' = [inflight EXCEPT ![g] =
                       [pc |-> "queried", cookie |-> r.cookie, time |-> now, meals |-> got.meals]]
                /\ UNCHANGED <<req, resp>>
        /\ UNCHANGED <<Users, Meals, mealSeq, cookies, now, viewData>>

\* data.Meals = meals
TodayAssign(g) ==
    /\ inflight[g].pc = "queried"
    /\ viewData' = [viewData EXCEPT !.Meals = inflight[g].meals]
    /\ inflight' = [inflight EXCEPT ![g].pc = "assigned"]
    /\ UNCHANGED <<Users, Meals, mealSeq, cookies, now, req, resp>>

\* tmpl.ExecuteTemplate(w, "root", data): the page shows data as it is now
TodayRender(g) ==
    /\ inflight[g].pc = "assigned"
    /\ req' = [NewRequest("today", "GET", "browser") EXCEPT
                  !.cookie = inflight[g].cookie, !.time = inflight[g].time]
    /\ resp' = Finished(ExecuteTemplate(Storage(NewResponse), "today", "", viewData.Meals))
    /\ inflight' = [inflight EXCEPT ![g] = Idle]
    /\ UNCHANGED <<Users, Meals, mealSeq, cookies, now, viewData>>

\* the server with the /today handler of main.go, whose requests overlap,
\* within one instant of the clock
NextSharedData ==
    \/ \E g \in Goroutines, c \in Clients, fault \in BOOLEAN : TodayQuery(g, c, fault)
    \/ \E g \in Goroutines : TodayAssign(g)
    \/ \E g \in Goroutines : TodayRender(g)
    \/ \E c \in Clients, e \in Emails : handleRegister(c, "POST", e, "hunter2", FALSE)
    \/ \E c \in Clients, e \in Emails : handleLogin(c, "POST", e, "hunter2", FALSE)
    \/ \E c \in Clients : handleLogout(c, "POST")
    \/ \E c \in Clients : handleMeals(c, [EmptyForm EXCEPT ![Lunch] = "soup"], FALSE)

SpecSharedData == Init /\ [][NextSharedData]_vars

\* ------------------------------------------------------------------ session resolver
\* the values a "session" cookie may hold under "userId" when the resolver is
\* taken on its own: nothing, an int64, or a value of another type
SessionInputs ==
    {Nil, Int64(1), [type |-> "string", val |-> 1], [type |-> "int", val |-> 1]}

InitAnySession ==
    /\ Users = {}
    /\ Meals = {}
    /\ mealSeq = 0
    /\ cookies \in [Clients -> {[userId |-> v] : v \in SessionInputs}]
    /\ now = 0
    /\ req = [route |-> "none", method |-> "", client |-> "", cookie |-> EmptyValues,
              email |-> "", password |-> "", form |-> EmptyForm, date |-> <<>>,
              id |-> [digits |-> FALSE, n |-> 0], fault |-> FALSE, time |-> 0]
    /\ resp = NewResponse
    /\ viewData = [Meals |-> {}]
    /\ inflight = [g \in Goroutines |-> Idle]

SpecAnySession == InitAnySession /\ [][Next]_vars

\* ------------------------------------------------------------------ claims
\* the request carried a session with an int64 user id
Authenticated(r) == r.cookie.userId.type = "int64"

\* the day of a stored date_consumed text, and of an instant
DayOfText(text) == text[1]
DayOf(t) == t \div TicksPerDay

\* C1: inserting a meal then fetching by the same user and date returns it:
\* every stored meal is returned by GetMealsByUserAndDate for its user at
\* every instant of its day; after a successful POST /api/meals the submitted
\* meal is stored for the session's user with the time of the request; and a
\* GET /today page lists every stored meal of its user on the day of the
\* request.
C1_InsertThenFetch ==
    /\ \A m \in Meals : \A t \in Times :
          DayOf(t) = DayOfText(m.date_consumed)
              => m \in GetMealsByUserAndDate(Meals, UserWithId(m.user_id), t, FALSE).meals
    /\ (req.route = "meals" /\ resp.status = 303)
          => \E m \in Meals :
                /\ m.user_id = req.cookie.userId.val
                /\ m.name = FormData(req.form).Name
                /\ m.date_consumed = FormatTimestamp(req.time)
                /\ DayOf(now) = DayOf(req.time)
                      => m \in GetMealsByUserAndDate(Meals, UserWithId(m.user_id), now, FALSE).meals
    /\ (req.route = "today" /\ resp.status = 200)
          => \A m \in Meals :
                (m.user_id = req.cookie.userId.val /\ DayOfText(m.date_consumed) = DayOf(req.time))
                    => m \in resp.body[1].meals

\* C1 witness: a meal was posted, the clock moved on within the day, and the
\* meal is still there
C1_Witness ==
    /\ req.route = "meals" /\ resp.status = 303
    /\ now > req.time /\ DayOf(now) = DayOf(req.time)
    /\ \E m \in Meals : m.user_id = req.cookie.userId.val /\ m.date_consumed = FormatTimestamp(req.time)

\* C2 as stated: after a delete of meal id M has returned without error, no
\* meal with id M is in what GetAllMeals returns.
C2_DeletedIsGone ==
    (req.route = "deleteMeal" /\ resp.status = 200 /\ req.id.digits)
        => \A m \in GetAllMeals(Meals, FALSE).meals : m.id /= req.id.n

\* C2 amended: a delete of meal id M by the user who owns it, returning
\* without error, leaves no meal with id M, and an id that the table has held
\* and holds no more never comes back, whatever follows.
C2_OwnerDeletedIsGone ==
    [][ /\ ( /\ req'.route = "deleteMeal" /\ resp'.status = 200 /\ req'.id.digits
             /\ \E m \in Meals : m.id = req'.id.n /\ m.user_id = req'.cookie.userId.val )
            => \A m \in GetAllMeals(Meals', FALSE).meals : m.id /= req'.id.n
        /\ \A id \in 1..mealSeq :
            (\A m \in Meals : m.id /= id) => (\A m \in GetAllMeals(Meals', FALSE).meals : m.id /= id)
      ]_vars

\* C2 witness: meal 1 was deleted by its owner, and a meal was stored since
C2_Witness ==
    /\ mealSeq = 2
    /\ \A m \in Meals : m.id /= 1
    /\ \E m \in Meals : m.id = 2

\* C3: no two rows of Users have the same email, and InsertUser with an
\* email that is in the table returns the uniqueness error and the table as
\* it was.
C3_EmailUnique ==
    /\ \A u1, u2 \in Users : u1.email = u2.email => u1 = u2
    /\ \A u \in Users :
          LET ins == InsertUser(Users, NewUser(u.email, GenerateFromPassword("hunter2").hash), FALSE)
          IN  ins.err = "SQLITE_CONSTRAINT_UNIQUE" /\ ins.users = Users

\* C3 witness: a POST /register with the email of an existing user was served
C3_Witness ==
    /\ req.route = "register" /\ req.method = "POST" /\ ~req.fault
    /\ req.password /= LongPassword
    /\ resp.body /= <<>> /\ resp.body[1].page = "register"
    /\ \E u \in Users : u.email = req.email
    /\ Cardinality(Users) = 1

\* C4: a POST /login whose password does not verify against the stored hash
\* of the user with that email gets the login page with the error message,
\* no session cookie and no redirect, and the client's session stays as sent.
C4_WrongPassword ==
    ( /\ req.route = "login" /\ req.method = "POST"
      /\ \E u \in Users : u.email = req.email /\ u.password /= GenerateFromPassword(req.password).hash )
        => /\ resp.status = 200
           /\ resp.body = <<[page |-> "login", errorMessage |-> "Invalid email or password",
                             meals |-> {}]>>
           /\ ~resp.setCookie
           /\ resp.location = ""
           /\ cookies[req.client] = req.cookie

\* C4 witness: a login with the email of a user and another password
C4_Witness ==
    /\ req.route = "login" /\ req.method = "POST" /\ ~req.fault
    /\ \E u \in Users : u.email = req.email /\ u.password /= GenerateFromPassword(req.password).hash
    /\ resp.status = 200

\* the stored meals of a user on the day a well-formed ?date= names
MealsOn(userId, dateStr) ==
    {m \in Meals : m.user_id = userId /\ DayOfText(m.date_consumed) = dateStr[1]}

\* C5: for a session with a user id and a well-formed date on which the user
\* has no meal, GetMealsByUserAndDate returns the empty list and no error, and
\* GET /history?date= answers 200 with the history page and no meal (the
\* storage call itself not failing).
C5_EmptyHistory ==
    /\ \A id \in 0..MaxUsers : \A d \in Days :
          MealsOn(id, <<d>>) = {}
              => GetMealsByUserAndDate(Meals, UserWithId(id), TimeParse(<<d>>).time, FALSE)
                    = [meals |-> {}, err |-> "nil"]
    /\ ( /\ req.route = "history" /\ Authenticated(req) /\ Len(req.date) = 1 /\ ~req.fault
         /\ MealsOn(req.cookie.userId.val, req.date) = {} )
          => /\ resp.status = 200
             /\ resp.body = <<[page |-> "history", errorMessage |-> "", meals |-> {}]>>

\* C5 witness: the user has a meal, and asked for the history of another day
C5_Witness ==
    /\ req.route = "history" /\ Authenticated(req) /\ Len(req.date) = 1 /\ ~req.fault
    /\ MealsOn(req.cookie.userId.val, req.date) = {}
    /\ \E m \in Meals : m.user_id = req.cookie.userId.val
    /\ resp.status = 200

\* C6: GetUserId returns the stored id and no error exactly when the session
\* holds an int64 under userId, and 0 with an error otherwise; /today, which
\* resolves the session first, sends the client to /login exactly in the
\* second case.
C6_GetUserId ==
    /\ \A c \in Clients :
          LET v == cookies[c].userId
              got == GetUserId(cookies[c])
          IN  /\ ~got.err <=> v.type = "int64"
              /\ ~got.err => got.id = v.val
              /\ got.err => got.id = 0
    /\ req.route = "today" =>
          LET got == GetUserId(req.cookie)
          IN  /\ got = IF req.cookie.userId.type = "int64"
                       THEN [id |-> req.cookie.userId.val, err |-> FALSE]
                       ELSE [id |-> 0, err |-> TRUE]
              /\ resp.location = "/login" <=> req.cookie.userId.type /= "int64"

\* C6 witness: /today was asked with a session whose userId is a string
C6_Witness ==
    /\ req.route = "today"
    /\ req.cookie.userId.type = "string"
    /\ resp.location = "/login"

\* the routes that resolve the session
Protected == {"today", "history", "meals", "deleteMeal"}

\* C7: a request to a protected route with no user id in its session is
\* answered 401 or with a redirect to /login, never with 500.
C7_UnauthorizedNot500 ==
    (req.route \in Protected /\ ~Authenticated(req))
        => /\ resp.status /= 500
           /\ resp.status = 401 \/ (resp.status = 303 /\ resp.location = "/login")

\* the steps that answer the request
Answers == {"render", "redirect", "error"}

\* C8: a handler makes at most one storage call and answers at most once:
\* after a render, a redirect or an HTTP error its trace holds no further
\* storage call, session write, render or redirect.
C8_OneCallOneAnswer ==
    /\ Cardinality({i \in 1..Len(resp.trace) : resp.trace[i] = "storage"}) <= 1
    /\ \A i \in 1..Len(resp.trace) : resp.trace[i] \in Answers => i = Len(resp.trace)

\* C9: every row of Meals has the user_id of a row of Users.
C9_MealsHaveUsers ==
    \A m \in Meals : \E u \in Users : u.id = m.user_id

\* C10: a DELETE /api/meals/{id} with a session for user U removes no meal
\* but the one with that id and user_id U, adds none, and leaves the table as
\* it was when the meal with that id belongs to another user or the session
\* has no user id.
C10_DeleteScoped ==
    [][ req'.route = "deleteMeal" =>
          /\ Meals' \subseteq Meals
          /\ \A m \in Meals \ Meals' :
                /\ Authenticated(req')
                /\ req'.id.digits /\ m.id = req'.id.n
                /\ m.user_id = req'.cookie.userId.val
          /\ (\E m \in Meals : req'.id.digits /\ m.id = req'.id.n
                                /\ m.user_id /= req'.cookie.userId.val)
                => Meals' = Meals
      ]_vars

\* C10 witness: a user asked to delete the meal of another user, which is
\* still stored
C10_Witness ==
    /\ req.route = "deleteMeal" /\ Authenticated(req) /\ ~req.fault
    /\ resp.status = 200
    /\ \E m \in Meals : req.id.digits /\ m.id = req.id.n /\ m.user_id /= req.cookie.userId.val
    /\ \E u \in Users : u.id = req.cookie.userId.val

\* every form a POST /api/meals may carry, over two food names
AllForms == [MealTypes -> {"", "soup", "chips"}]

\* C11: every row of Meals has a meal_type of the enumeration and a name that
\* is not empty; and whatever the form, the meal handleMeals builds from it
\* has a type of the enumeration whenever it has a name.
C11_MealTypeEnum ==
    /\ \A m \in Meals : m.meal_type \in MealTypes /\ m.name /= ""
    /\ \A f \in AllForms :
          LET data == FormData(f)
              meal == NewMeal(data.Name, 1, data.MealType, now)
          IN  data.Name /= "" => (meal.meal_type \in MealTypes /\ meal.name = data.Name)

\* C11 witness: two meals are stored, the last by the request just served
C11_Witness ==
    /\ req.route = "meals" /\ resp.status = 303
    /\ Cardinality(Meals) = 2

\* C12: GetMealsByUserAndDate(U, T) returns exactly the stored meals of U
\* whose date_consumed is on the calendar day of T, for every user id and
\* every instant T; and the pages of /today and of /history?date= show
\* exactly the meals of the session's user on the day asked for.
C12_ByCalendarDay ==
    /\ \A id \in 0..MaxUsers : \A t \in Times :
          GetMealsByUserAndDate(Meals, UserWithId(id), t, FALSE).meals
              = {m \in Meals : m.user_id = id /\ DayOfText(m.date_consumed) = DayOf(t)}
    /\ (req.route = "today" /\ resp.status = 200)
          => resp.body[1].meals
                = {m \in Meals : m.user_id = req.cookie.userId.val
                                  /\ DayOfText(m.date_consumed) = DayOf(req.time)}
    /\ (req.route = "history" /\ resp.status = 200 /\ Len(req.date) = 1)
          => resp.body[1].meals = MealsOn(req.cookie.userId.val, req.date)

\* C12 witness: the history of a day shows a meal eaten later that day than
\* the midnight the date parses to, and leaves out a meal of another day
C12_Witness ==
    /\ req.route = "history" /\ resp.status = 200 /\ Len(req.date) = 1
    /\ \E m \in resp.body[1].meals : m.date_consumed[2] /= 0
    /\ \E m \in Meals : /\ m.user_id = req.cookie.userId.val
                        /\ DayOfText(m.date_consumed) /= req.date[1]

\* C13: under any interleaving of requests, the meal list a request to /today
\* renders is the result of that request's own storage query.
C13_OwnQueryRendered ==
    [][ \A g \in Goroutines :
          (inflight[g].pc = "assigned" /\ inflight'[g].pc = "idle")
              => resp'.body[1].meals = inflight[g].meals
      ]_vars

\* C14: rows of Users are never updated or deleted: a step that is not a POST
\* /register leaves Users as it was; a POST /register either leaves it as it
\* was or adds exactly one row, with the email of the request and an id no
\* row had, and keeps every row that was there; and a registration that fails
\* (the password cannot be hashed, the insert fails) leaves it as it was.
C14_UsersAppendOnly ==
    [][ /\ ~(req'.route = "register" /\ req'.method = "POST") => Users' = Users
        /\ Users \subseteq Users'
        /\ Users' /= Users =>
              /\ Cardinality(Users' \ Users) = 1
              /\ \A u \in Users' \ Users :
                    /\ u.email = req'.email
                    /\ u.password = GenerateFromPassword(req'.password).hash
                    /\ \A v \in Users : v.id /= u.id /\ v.email /= u.email
        /\ ( /\ req'.route = "register" /\ req'.method = "POST"
             /\ \/ req'.fault
                \/ GenerateFromPassword(req'.password).err
                \/ \E u \in Users : u.email = req'.email )
              => Users' = Users
      ]_vars

\* C14 witness: a second user was registered, and the first is still there
C14_Witness ==
    /\ req.route = "register" /\ req.method = "POST" /\ ~req.fault
    /\ resp.status = 303
    /\ Cardinality(Users) = 2
    /\ \E u \in Users : u.email = req.email /\ u.id = 2
    /\ \E u \in Users : u.email /= req.email /\ u.id = 1

\* C15: the meal list rendered for a session with user id U on GET /today
\* and on GET /history, with or without a date, holds only meals whose
\* user_id is U.
C15_ViewsIsolated ==
    (req.route \in {"today", "history"} /\ Authenticated(req) /\ resp.status = 200)
        => \A m \in resp.body[1].meals : m.user_id = req.cookie.userId.val

\* C16: whenever a session holds a userId, it is the id of a row of Users.
C16_SessionIsUser ==
    \A c \in Clients :
        cookies[c].userId.type = "int64" => \E u \in Users : u.id = cookies[c].userId.val

\* the request was a login or a registration that succeeded: it left the
\* session with the id of the user who logged in or was registered
LoggedIn(r, users, users2, values) ==
    \/ /\ r.route = "login" /\ r.method = "POST"
       /\ \E u \in users :
             /\ u.email = r.email
             /\ u.password = GenerateFromPassword(r.password).hash
             /\ values.userId = Int64(u.id)
    \/ /\ r.route = "register" /\ r.method = "POST"
       /\ \E u \in users2 \ users : u.email = r.email /\ values.userId = Int64(u.id)

\* C17: a POST /logout leaves the session with no userId; any other /logout
\* leaves the session as it was; and the request that follows a POST /logout
\* leaves the session with a userId only if it is a successful login or
\* registration.
C17_LoggedOutUntilLogin ==
    [][ /\ (req'.route = "logout" /\ req'.method = "POST")
              => cookies'[req'.client].userId = Nil
        /\ (req'.route = "logout" /\ req'.method /= "POST") => cookies' = cookies
        /\ ( /\ req.route = "logout" /\ req.method = "POST"
             /\ cookies'[req.client].userId /= Nil )
              => LoggedIn(req', Users, Users', cookies'[req.client])
      ]_vars

\* the field of the form at place i of the order breakfast, lunch, dinner,
\* snacks is the first that is not empty
FirstFilled(form, i) ==
    /\ form[MealTypeOrder[i]] /= ""
    /\ \A j \in 1..(i - 1) : form[MealTypeOrder[j]] = ""

\* C18: a POST /api/meals answered with the redirect to /today (a step in
\* which the clock stands still ends with that request served) has added
\* exactly one row to Meals and removed none; the row's meal_type is the first
\* of breakfast, lunch, dinner, snacks whose field is not empty, its name is
\* that field's value and its user_id is the session's user id.  And for every
\* form such a request may carry, the name and type handleMeals takes from it
\* are those of the first field that is not empty.
C18_FirstFilledField ==
    [][ /\ (req'.route = "meals" /\ resp'.status = 303 /\ now' = now) =>
              /\ Meals \subseteq Meals'
              /\ Cardinality(Meals' \ Meals) = 1
              /\ \A m \in Meals' \ Meals :
                    /\ m.user_id = req'.cookie.userId.val
                    /\ \E i \in 1..Len(MealTypeOrder) :
                          /\ FirstFilled(req'.form, i)
                          /\ m.meal_type = MealTypeOrder[i]
                          /\ m.name = req'.form[MealTypeOrder[i]]
        /\ (req'.route = "meals" /\ now' = now) =>
              \A f \in AllForms : \A i \in 1..Len(MealTypeOrder) :
                  FirstFilled(f, i) =>
                      FormData(f) = [Name |-> f[MealTypeOrder[i]], MealType |-> MealTypeOrder[i]]
      ]_vars

\* C18 witness: a form with lunch and snacks was posted, and the meal stored
\* for the session's user is the lunch
C18_Witness ==
    /\ req.route = "meals" /\ resp.status = 303
    /\ req.form[Lunch] /= "" /\ req.form[Snacks] /= ""
    /\ \E m \in Meals :
          /\ m.id = mealSeq
          /\ m.user_id = req.cookie.userId.val
          /\ m.meal_type = Lunch /\ m.name = req.form[Lunch]
    /\ \A m \in Meals : m.meal_type /= Snacks

C20_UnauthenticatedNoWrite ==
    [][ ( /\ req'.route \in {"meals", "deleteMeal"} /\ now' = now
          /\ ~Authenticated(req') )
            => /\ Meals' = Meals
               /\ mealSeq' = mealSeq
               /\ \A i \in 1..Len(resp'.trace) : resp'.trace[i] /= "storage"
      ]_vars

\* C20 witness: a DELETE for the id of a stored meal came without a session,
\* and the meal is still stored
C20_Witness ==
    /\ req.route = "deleteMeal" /\ ~Authenticated(req)
    /\ req.id.digits
    /\ \E m \in Meals : m.id = req.id.n
    /\ resp.status = 500

\* C21: a POST /register that adds a user leaves the session with the id of
\* the new row, whose email is the one sent and whose password column holds a
\* bcrypt hash and not the password sent; and a POST /login with the email of
\* a stored user and the password its hash was made from, the lookup not
\* failing, is answered with the redirect to /today and leaves the session
\* with that user's id.
C21_RegisterThenLogin ==
    [][ /\ (req'.route = "register" /\ now' = now /\ Users' /= Users) =>
              \E u \in Users' \ Users :
                  /\ u.email = req'.email
                  /\ u.password /= <<req'.password>>
                  /\ u.password[1] = "$2a$10$"
                  /\ resp'.status = 303
                  /\ cookies'[req'.client].userId = Int64(u.id)
        /\ (req'.route = "login" /\ req'.method = "POST" /\ now' = now /\ ~req'.fault) =>
              \A u \in Users :
                  (u.email = req'.email /\ u.password = <<"$2a$10$", req'.password>>)
                      => /\ resp'.status = 303 /\ resp'.location = "/today"
                         /\ cookies'[req'.client].userId = Int64(u.id)
      ]_vars

\* C21 witness: the second user registered, logged out, and has logged in
\* again with the same email and password
C21_Witness ==
    /\ req.route = "login" /\ req.method = "POST" /\ resp.status = 303
    /\ req.cookie.userId = Nil
    /\ \E u \in Users :
          /\ u.id = 2 /\ u.email = req.email
          /\ u.password = <<"$2a$10$", req.password>>
          /\ cookies[req.client].userId = Int64(2)

\* what a client gets for a login that failed
FailedLogin ==
    [status |-> 200,
     body |-> <<[page |-> "login", errorMessage |-> "Invalid email or password", meals |-> {}]>>,
     location |-> "", hxRedirect |-> "", setCookie |-> FALSE, cookie |-> EmptyValues,
     trace |-> <<"storage", "render">>]

\* C22: a POST /login with an email that no user has, and a POST /login with
\* the email of a user and a password that does not verify, get one and the
\* same response (the login page with "Invalid email or password", no cookie,
\* no redirect) and leave the session as it was.
C22_FailedLoginsAlike ==
    [][ ( /\ req'.route = "login" /\ req'.method = "POST" /\ now' = now /\ ~req'.fault
          /\ \/ \A u \in Users : u.email /= req'.email
             \/ \E u \in Users : /\ u.email = req'.email
                                  /\ u.password /= <<"$2a$10$", req'.password>> )
            => (resp' = FailedLogin /\ cookies' = cookies)
      ]_vars

\* C22 witness: a login with an email that no user has, while another email
\* is registered and the session is logged in
C22_Witness ==
    /\ req.route = "login" /\ req.method = "POST" /\ ~req.fault
    /\ \A u \in Users : u.email /= req.email
    /\ Users /= {}
    /\ Authenticated(req)
    /\ resp = FailedLogin

\* C23: meal ids are never given twice: a row that a step adds has an id
\* larger than every id given before (mealSeq, which deletes do not lower),
\* the meal InsertMeal returns carries that id, no two rows share an id, and
\* an id that was given and is no longer in the table stays out of it.
C23_IdsNeverReused ==
    [][ /\ \A m \in Meals' \ Meals : m.id > mealSeq /\ m.id = mealSeq'
        /\ mealSeq' >= mealSeq
        /\ \A m \in Meals' : m.id \in 1..mealSeq'
        /\ \A m1, m2 \in Meals' : m1.id = m2.id => m1 = m2
        /\ (req'.route = "meals" /\ now' = now /\ resp'.status = 303) =>
              LET data == FormData(req'.form)
                  ins == InsertMeal(Meals, mealSeq,
                                    NewMeal(data.Name, req'.cookie.userId.val, data.MealType, now),
                                    FALSE)
              IN  /\ ins.err = "nil"
                  /\ ins.meal.id \notin 1..mealSeq
                  /\ \A m \in Meals : m.id /= ins.meal.id
                  /\ ins.meal \in Meals'
      ]_vars

\* C23 witness: meal 1 was deleted, and the meal just posted got the id 2
C23_Witness ==
    /\ req.route = "meals" /\ resp.status = 303
    /\ Cardinality(Meals) = 1
    /\ \E m \in Meals : m.id = 2 /\ m.date_consumed = FormatTimestamp(req.time)
    /\ now = req.time

\* what a client gets for a delete that ran without error
DeleteDone ==
    [status |-> 200, body |-> <<>>, location |-> "", hxRedirect |-> "/today",
     setCookie |-> FALSE, cookie |-> EmptyValues, trace |-> <<"storage">>]

\* C24: on the table a DELETE request finds, for every user and every id
\* text, DeleteMealByUserAndId returns no error; when no meal of the user has
\* the id it returns the table as it was;
\* and a second delete of the same id returns no error and the table the first
\* returned.  A DELETE /api/meals/{id} with a session, the statement not
\* failing in the driver, is answered with the same response whether or not a
\* meal was there, and leaves the table as it was when none was.
C24_DeleteIdempotent ==
    [][ /\ (req'.route = "deleteMeal" /\ now' = now) =>
              \A uid \in 0..MaxUsers : \A id \in IdParams :
                  LET once == DeleteMealByUserAndId(Meals, UserWithId(uid), id, FALSE)
                      twice == DeleteMealByUserAndId(once.meals, UserWithId(uid), id, FALSE)
                  IN  /\ once.err = "nil" /\ twice.err = "nil"
                      /\ twice.meals = once.meals
                      /\ (\A m \in Meals : ~(m.user_id = uid /\ id.digits /\ m.id = id.n))
                            => once.meals = Meals
        /\ ( /\ req'.route = "deleteMeal" /\ now' = now
             /\ Authenticated(req') /\ ~req'.fault )
              => /\ resp' = DeleteDone
                 /\ (\A m \in Meals : ~( /\ m.user_id = req'.cookie.userId.val
                                          /\ req'.id.digits /\ m.id = req'.id.n ))
                       => Meals' = Meals
      ]_vars

\* C24 witness: a user asked to delete an id that no meal has ever had, was
\* answered as for a delete that removed a meal, and the user's meal is still
\* stored
C24_Witness ==
    /\ req.route = "deleteMeal" /\ Authenticated(req) /\ ~req.fault
    /\ req.id.digits /\ req.id.n > mealSeq
    /\ \E m \in Meals : m.user_id = req.cookie.userId.val
    /\ resp = DeleteDone

====
